---- MODULE Spec2Model ----
(***************************************************************************)
(* plane-cool (src/main.py): a Flask service that lists the aircraft near  *)
(* a position (GET /) or names the closest one (GET /closest).             *)
(*                                                                         *)
(* Numbers.  Python floats are modelled in fixed point: angles are whole   *)
(* degrees that are multiples of 90 (where sin and cos are -1, 0 or 1),    *)
(* altitudes are whole feet, Cartesian coordinates and distances are whole *)
(* kilometres.  float("inf") stands as the value Inf.  Query values are    *)
(* finite decimal integers; non-finite or overflowing query values (inf,   *)
(* nan, 1e200) are outside the modelled domain.                            *)
(*                                                                         *)
(* Text.  A string is a sequence of pieces (characters for query values,   *)
(* literals and formatted fields for response bodies); concatenation is    *)
(* \o.                                                                     *)
(***************************************************************************)
EXTENDS Integers, Sequences, FiniteSets, TLC

(***************************************************************************)
(* Bounds of the model                                                     *)
(***************************************************************************)
MaxFlights == 3       \* longest gateway listing, one request served
MaxConcFlights == 1   \* longest gateway listing, two requests served

(***************************************************************************)
(* Python values                                                           *)
(***************************************************************************)
PyNone == [tag |-> "none"]
PyStr(s) == [tag |-> "str", s |-> s]
PyNum(n) == [tag |-> "num", n |-> n]

Raise(type, msg) == [raised |-> TRUE, type |-> type, msg |-> msg]
Return(v) == [raised |-> FALSE, value |-> v]

\* isinstance(e, ValueError): json.JSONDecodeError derives from ValueError
ValueErrorTypes == {"ValueError", "JSONDecodeError"}
IsValueError(type) == type \in ValueErrorTypes

(***************************************************************************)
(* float(): [sign] digit+ read in base ten; None is a TypeError, any other *)
(* text a ValueError                                                       *)
(***************************************************************************)
Digits == {"0", "1", "2", "3", "4", "5", "6", "7", "8", "9"}

DigitValue(c) ==
  CASE c = "0" -> 0 [] c = "1" -> 1 [] c = "2" -> 2 [] c = "3" -> 3
    [] c = "4" -> 4 [] c = "5" -> 5 [] c = "6" -> 6 [] c = "7" -> 7
    [] c = "8" -> 8 [] c = "9" -> 9

RECURSIVE ParseDigits(_, _)
ParseDigits(s, acc) ==
  IF s = <<>> THEN Return(acc)
  ELSE IF Head(s) \in Digits
       THEN ParseDigits(Tail(s), acc * 10 + DigitValue(Head(s)))
       ELSE Raise("ValueError", <<"could not convert string to float">>)

PyFloat(v) ==
  CASE v.tag = "none" ->
         Raise("TypeError", <<"float() argument must be a string or a number">>)
    [] v.tag = "num" -> Return(v.n)
    [] v.tag = "str" ->
         LET signed == v.s # <<>> /\ Head(v.s) \in {"-", "+"}
             body == IF signed THEN Tail(v.s) ELSE v.s
             mag == ParseDigits(body, 0)
         IN IF body = <<>>
            THEN Raise("ValueError", <<"could not convert string to float">>)
            ELSE IF mag.raised THEN mag
            ELSE IF Head(v.s) = "-" THEN Return(0 - mag.value)
            ELSE mag

(***************************************************************************)
(* Floats: a finite value in whole units, or float("inf")                   *)
(***************************************************************************)
Fin(n) == [inf |-> FALSE, n |-> n]
Inf == [inf |-> TRUE, n |-> 0]
IsFinite(a) == ~a.inf
\* a < b on floats
FloatLt(a, b) == ~a.inf /\ (b.inf \/ a.n < b.n)

(***************************************************************************)
(* math: sin and cos of whole degrees (multiples of 90), sqrt, atan2        *)
(***************************************************************************)
SinDeg(d) ==
  CASE d % 360 = 0 -> 0 [] d % 360 = 90 -> 1
    [] d % 360 = 180 -> 0 [] d % 360 = 270 -> -1

CosDeg(d) ==
  CASE d % 360 = 0 -> 1 [] d % 360 = 90 -> 0
    [] d % 360 = 180 -> -1 [] d % 360 = 270 -> 0

RECURSIVE SqrtIter(_, _)
SqrtIter(n, x) ==
  LET y == (x + n \div x) \div 2
  IN IF y >= x THEN x ELSE SqrtIter(n, y)

\* math.sqrt, rounded down to a whole unit
Sqrt(n) == IF n < 2 THEN n ELSE SqrtIter(n, n)

\* math.degrees(math.atan2(y, x)) for y, x with |y| = |x| or one of them 0
Atan2Deg(y, x) ==
  CASE y = 0 /\ x >= 0 -> 0
    [] y = 0 /\ x < 0 -> 180
    [] y > 0 /\ x = 0 -> 90
    [] y < 0 /\ x = 0 -> -90
    [] y > 0 /\ x > 0 -> 45
    [] y > 0 /\ x < 0 -> 135
    [] y < 0 /\ x > 0 -> -45
    [] y < 0 /\ x < 0 -> -135

(***************************************************************************)
(* distance, pointToCartesian (kilometres)                                 *)
(***************************************************************************)
distance(p, q) ==
  Sqrt((q[1] - p[1]) * (q[1] - p[1]) + (q[2] - p[2]) * (q[2] - p[2])
       + (q[3] - p[3]) * (q[3] - p[3]))

\* 6378137 / sqrt(1 - 0.006694379990197619 * sin(phi)^2), in km
N(phi) ==
  (6378 * 10000) \div Sqrt(100000000 - 669438 * SinDeg(phi) * SinDeg(phi))

pointToCartesian(longitude, latitude, altitude) ==
  LET altitude_m == (altitude * 3048) \div 10000000
      x == (N(latitude) + altitude_m) * CosDeg(latitude) * CosDeg(longitude)
      y == (N(latitude) + altitude_m) * CosDeg(latitude) * SinDeg(longitude)
      z == ((9933 * N(latitude)) \div 10000 + altitude_m) * SinDeg(latitude)
  IN <<x, y, z>>

(***************************************************************************)
(* calculate_heading_to_aircraft                                           *)
(***************************************************************************)
\* a variant that returns math.degrees(bearing_rad) as it is
NormalizeBearingNone(bearing_deg) == bearing_deg

\* the source's normalisation, (bearing_deg + 360) % 360
NormalizeBearing(bearing_deg) == (bearing_deg + 360) % 360

RawBearing(user_lat, user_lon, aircraft_lat, aircraft_lon) ==
  LET dlon == aircraft_lon - user_lon
      y == SinDeg(dlon) * CosDeg(aircraft_lat)
      x == CosDeg(user_lat) * SinDeg(aircraft_lat)
           - SinDeg(user_lat) * CosDeg(aircraft_lat) * CosDeg(dlon)
  IN Atan2Deg(y, x)

calculate_heading_to_aircraft(user_lat, user_lon, aircraft_lat, aircraft_lon) ==
  NormalizeBearing(RawBearing(user_lat, user_lon, aircraft_lat, aircraft_lon))

(***************************************************************************)
(* FlightDataGateway (FlightRadar24API): what its calls can answer          *)
(***************************************************************************)
GatewayErrors ==
  { Raise("JSONDecodeError", <<"Expecting value">>),
    Raise("ConnectionError", <<"Connection refused">>) }

\* A Flight after set_flight_details: its attributes. Attributes may be absent.
FlightObjects ==
  { [latitude |-> 0, longitude |-> 0, altitude |-> 30000, heading |-> 90,
     airline_name |-> "British Airways", aircraft_model |-> "A320",
     origin_airport_name |-> "London", destination_airport_name |-> "Paris"],
    [latitude |-> 0, longitude |-> 90, altitude |-> 0, heading |-> 180,
     airline_name |-> "Lufthansa", aircraft_model |-> "B747",
     origin_airport_name |-> "Berlin", destination_airport_name |-> "Rome"],
    [latitude |-> 0, longitude |-> -90, altitude |-> 0, heading |-> 0,
     airline_name |-> "Iberia", aircraft_model |-> "A380",
     origin_airport_name |-> "Madrid", destination_airport_name |-> "Lima"],
    [latitude |-> 90, longitude |-> 0, heading |-> 270,
     aircraft_model |-> "C172"] }

\* fr_api.get_flight_details(flight) with flight.set_flight_details(...)
DetailReplies == { Return(f) : f \in FlightObjects } \cup GatewayErrors

\* getattr(flight, name, default)
GetAttr(flight, name, default) ==
  IF name \in DOMAIN flight THEN flight[name] ELSE default

\* a variant whose except clause falls through to the dict of defaults
get_flight_data_defaults(reply) ==
  IF reply.raised
  THEN [tag |-> "dict", source |-> "Unknown", destination |-> "Unknown",
        airline |-> "Unknown", aircraft_type |-> "Unknown", altitude |-> 0,
        latitude |-> 0, longitude |-> 0, heading |-> 0]
  ELSE LET flight == reply.value
       IN [tag |-> "dict",
           source |-> GetAttr(flight, "origin_airport_name", "Unknown"),
           destination |-> GetAttr(flight, "destination_airport_name", "Unknown"),
           airline |-> GetAttr(flight, "airline_name", "Unknown"),
           aircraft_type |-> GetAttr(flight, "aircraft_model", "Unknown"),
           altitude |-> GetAttr(flight, "altitude", 0),
           latitude |-> GetAttr(flight, "latitude", 0),
           longitude |-> GetAttr(flight, "longitude", 0),
           heading |-> GetAttr(flight, "heading", 0)]

\* get_flight_data(flight), given what the gateway answers for the flight
get_flight_data(reply) ==
  IF reply.raised THEN PyNone
  ELSE LET flight == reply.value
       IN [tag |-> "dict",
           source |-> GetAttr(flight, "origin_airport_name", "Unknown"),
           destination |-> GetAttr(flight, "destination_airport_name", "Unknown"),
           airline |-> GetAttr(flight, "airline_name", "Unknown"),
           aircraft_type |-> GetAttr(flight, "aircraft_model", "Unknown"),
           altitude |-> GetAttr(flight, "altitude", 0),
           latitude |-> GetAttr(flight, "latitude", 0),
           longitude |-> GetAttr(flight, "longitude", 0),
           heading |-> GetAttr(flight, "heading", 0)]

\* One pass of the loop of get_flights_with_distances: the tuple appended for
\* `flight`. loc is the user's (longitude, latitude, altitude), user its
\* Cartesian point.
FlightEntry(loc, user, flight, reply) ==
  LET flight_data == get_flight_data(reply)
  IN IF flight_data.tag = "none"
     THEN <<Inf, PyNone, PyStr(<<"Error processing flight ", ToString(flight)>>)>>
     ELSE LET aircraft == pointToCartesian(flight_data.longitude,
                                           flight_data.latitude,
                                           flight_data.altitude)
              dist == distance(user, aircraft)
              heading_to_aircraft ==
                calculate_heading_to_aircraft(loc.latitude, loc.longitude,
                                              flight_data.latitude,
                                              flight_data.longitude)
          IN <<Fin(dist), flight_data, PyNum(heading_to_aircraft)>>

\* a variant that leaves str(e) out of the message
WrapFetchErrorNoMessage(e) ==
  Raise("Exception", <<"Error fetching flight data">>)

\* a variant that raises the type it caught: raise type(e)(...)
WrapFetchErrorSameType(e) ==
  Raise(e.type, <<"Error fetching flight data: ">> \o e.msg)

\* except Exception as e: raise Exception(f"Error fetching flight data: {str(e)}")
WrapFetchError(e) ==
  Raise("Exception", <<"Error fetching flight data: ">> \o e.msg)

(***************************************************************************)
(* validate_location_params: request.args is a record whose absent          *)
(* parameters hold None                                                     *)
(***************************************************************************)
\* request.args.get(name, default)
ArgsGet(args, name, default) ==
  IF args[name].tag = "none" THEN default ELSE args[name]

\* a variant without the default: request.args.get("altitude")
AltitudeNoDefault == PyNone

\* the default of request.args.get("altitude", 0)
AltitudeDefault == PyNum(0)

validate_location_params(args) ==
  LET longitude == PyFloat(ArgsGet(args, "longitude", PyNone))
      latitude == PyFloat(ArgsGet(args, "latitude", PyNone))
      altitude == PyFloat(ArgsGet(args, "altitude", AltitudeDefault))
      invalid == Raise("ValueError",
                       <<"Invalid longitude, latitude, or altitude values">>)
  IN IF longitude.raised THEN invalid
     ELSE IF latitude.raised THEN invalid
     ELSE IF altitude.raised THEN invalid
     ELSE Return([longitude |-> longitude.value, latitude |-> latitude.value,
                  altitude |-> altitude.value])

(***************************************************************************)
(* The two routes: what they return                                        *)
(***************************************************************************)
TextPlain == "text/plain"
NoHeaders == "default"

\* except ValueError as e: ... 400 / except Exception as e: ... 500
ErrorResponse(e) ==
  [status |-> IF IsValueError(e.type) THEN 400 ELSE 500,
   body |-> <<"Error: ">> \o e.msg, headers |-> NoHeaders]

\* a variant that sorts the closest last, as the comment of line 145 says
KeyLtReversed(a, b) == FloatLt(b[1], a[1])

\* Python's "<" on the sort keys
KeyLt(a, b) == FloatLt(a[1], b[1])

\* list.sort(key=lambda x: x[0]): stable insertion, an element goes after
\* every element whose key is not greater than its own
RECURSIVE InsertByKey(_, _)
InsertByKey(e, sorted) ==
  IF sorted = <<>> THEN <<e>>
  ELSE IF KeyLt(e, Head(sorted)) THEN <<e>> \o sorted
  ELSE <<Head(sorted)>> \o InsertByKey(e, Tail(sorted))

RECURSIVE SortFrom(_, _)
SortFrom(rest, sorted) ==
  IF rest = <<>> THEN sorted
  ELSE SortFrom(Tail(rest), InsertByKey(Head(rest), sorted))

SortByDistance(data) == SortFrom(data, <<>>)

\* f"{dist_km:.2f}" with dist_km = dist / 1000 (dist is in whole km here)
FormatKm(dist) == <<ToString(dist.n), ".00">>

\* one element of output_strings (the degree sign is written deg)
OutputString(e) ==
  IF e[2].tag = "none" THEN e[3].s
  ELSE <<"Aircraft: ", e[2].aircraft_type, " | Airline: ", e[2].airline,
         " | From: ", e[2].source, " | To: ", e[2].destination,
         " | Altitude: ", ToString(e[2].altitude), "ft | Heading: ",
         ToString(e[2].heading), "deg | Distance: ">> \o FormatKm(e[1])
       \o <<"km | Heading to Aircraft From My Location: ",
            ToString(e[3].n), "deg">>

\* "\n".join(lines)
RECURSIVE Join(_)
Join(lines) ==
  IF lines = <<>> THEN <<>>
  ELSE IF Len(lines) = 1 THEN Head(lines)
  ELSE Head(lines) \o <<"\n">> \o Join(Tail(lines))

Prompt == "Here is information about the aircraft near to me. [...] Here is the prompt:\n"

\* get_aircraft, lines 145-163, on the list get_flights_with_distances returned
RenderAll(data) ==
  LET sorted == SortByDistance(data)
      output_strings == [i \in 1..Len(sorted) |-> OutputString(sorted[i])]
  IN [status |-> 200, body |-> Join(output_strings) \o <<Prompt>>,
      headers |-> TextPlain]

\* the list comprehension of lines 179-183
RECURSIVE ValidAircraft(_)
ValidAircraft(data) ==
  IF data = <<>> THEN <<>>
  ELSE IF Head(data)[2].tag # "none"
       THEN <<<<Head(data)[1], Head(data)[2]>>>> \o ValidAircraft(Tail(data))
       ELSE ValidAircraft(Tail(data))

NotFoundText == "No aircraft found within 10km of your location."

\* a variant that takes valid_aircraft[-1]
ClosestLast(valid_aircraft) ==
  SortByDistance(valid_aircraft)[Len(valid_aircraft)]

\* valid_aircraft[0] after the sort
Closest(valid_aircraft) == SortByDistance(valid_aircraft)[1]

\* a variant that tests the unfiltered list, `if not aircraft_data`: with only
\* failed aircraft valid_aircraft[0] raises IndexError
RenderClosestUnfilteredTest(data) ==
  LET valid_aircraft == ValidAircraft(data)
  IN IF data = <<>>
     THEN [status |-> 200, body |-> <<NotFoundText>>, headers |-> TextPlain]
     ELSE IF valid_aircraft = <<>>
     THEN ErrorResponse(Raise("IndexError", <<"list index out of range">>))
     ELSE LET closest_flight == Closest(valid_aircraft)[2]
          IN [status |-> 200,
              body |-> <<closest_flight.airline, " ", closest_flight.aircraft_type,
                         " departing from ", closest_flight.source, " to ",
                         closest_flight.destination, ".">>,
              headers |-> TextPlain]

\* get_closest_aircraft, lines 178-199
RenderClosest(data) ==
  LET valid_aircraft == ValidAircraft(data)
  IN IF valid_aircraft = <<>>
     THEN [status |-> 200, body |-> <<NotFoundText>>, headers |-> TextPlain]
     ELSE LET closest_flight == Closest(valid_aircraft)[2]
          IN [status |-> 200,
              body |-> <<closest_flight.airline, " ", closest_flight.aircraft_type,
                         " departing from ", closest_flight.source, " to ",
                         closest_flight.destination, ".">>,
              headers |-> TextPlain]

(***************************************************************************)
(* The service. Each request the framework serves has its own frame: the   *)
(* locals of its route and of get_flights_with_distances.                  *)
(***************************************************************************)
VARIABLES
  pc,             \* where each request stands
  endpoint,       \* the route of each request: "/" or "/closest"
  args,           \* request.args
  nearby,         \* the flights the gateway lists for the request, if asked
  loc,            \* (longitude, latitude, altitude) once validated
  user,           \* user_x, user_y, user_z
  bounds,         \* what get_bounds_by_point returned
  flights,        \* what get_flights returned
  idx,            \* position of the for loop in flights
  aircraft_data,  \* the list get_flights_with_distances builds
  response,       \* what the route returned
  calls,          \* history: the gateway calls of the request, with the answers
  probe           \* a call of the bearing functions on its own

vars == <<pc, endpoint, args, nearby, loc, user, bounds, flights, idx,
          aircraft_data, response, calls, probe>>

Requests == {1, 2}
Routes == {"/", "/closest"}

\* the radius each route passes
Radius(route) == IF route = "/" THEN 20000 ELSE 10000

\* a variant with one module-level aircraft_data for every request
FrameShared(r) == 1

\* aircraft_data = [] makes a list of the running call: the frame it lives in
Frame(r) == r

\* a variant that visits the first flight twice
LoopIndexRepeat(i) == IF i > 1 THEN i - 1 ELSE i

\* the order in which `for flight in flights` visits
LoopIndex(i) == i

NoResponse == [status |-> 0, body |-> <<>>, headers |-> NoHeaders]
NoLoc == [longitude |-> 0, latitude |-> 0, altitude |-> 0]

\* the route's try/except around everything it does
Fail(r, e) ==
  /\ response' = [response EXCEPT ![r] = ErrorResponse(e)]
  /\ pc' = [pc EXCEPT ![r] = "done"]

\* lines 141 / 174
Validate(r) ==
  /\ pc[r] = "validate"
  /\ LET v == validate_location_params(args[r])
     IN IF v.raised
        THEN /\ Fail(r, v)
             /\ UNCHANGED loc
        ELSE /\ loc' = [loc EXCEPT ![r] = v.value]
             /\ pc' = [pc EXCEPT ![r] = "bounds"]
             /\ UNCHANGED response
  /\ UNCHANGED <<endpoint, args, nearby, user, bounds, flights, idx,
                 aircraft_data, calls, probe>>

\* lines 84-90: the user's Cartesian point, a client, the bounds query
GetBounds(r) ==
  /\ pc[r] = "bounds"
  /\ user' = [user EXCEPT ![r] = pointToCartesian(loc[r].longitude,
                                                  loc[r].latitude,
                                                  loc[r].altitude)]
  /\ \E reply \in {Return(<<loc[r].latitude, loc[r].longitude,
                            Radius(endpoint[r])>>)} \cup GatewayErrors :
       /\ calls' = [calls EXCEPT ![r] =
                      Append(@, [op |-> "get_bounds_by_point", flight |-> 0,
                                 reply |-> reply])]
       /\ IF reply.raised
          THEN /\ Fail(r, WrapFetchError(reply))
               /\ UNCHANGED bounds
          ELSE /\ bounds' = [bounds EXCEPT ![r] = reply.value]
               /\ pc' = [pc EXCEPT ![r] = "flights"]
               /\ UNCHANGED response
  /\ UNCHANGED <<endpoint, args, nearby, loc, flights, idx, aircraft_data,
                 probe>>

\* lines 91-93: the list query, then aircraft_data = []
GetFlights(r) ==
  /\ pc[r] = "flights"
  /\ \E reply \in {Return(nearby[r])} \cup GatewayErrors :
       /\ calls' = [calls EXCEPT ![r] =
                      Append(@, [op |-> "get_flights", flight |-> 0,
                                 reply |-> reply])]
       /\ IF reply.raised
          THEN /\ Fail(r, WrapFetchError(reply))
               /\ UNCHANGED <<flights, idx, aircraft_data>>
          ELSE /\ flights' = [flights EXCEPT ![r] = reply.value]
               /\ idx' = [idx EXCEPT ![r] = 1]
               /\ aircraft_data' = [aircraft_data EXCEPT ![Frame(r)] = <<>>]
               /\ pc' = [pc EXCEPT ![r] = "loop"]
               /\ UNCHANGED response
  /\ UNCHANGED <<endpoint, args, nearby, loc, user, bounds, probe>>

\* lines 95-119: one pass of the loop
ProcessFlight(r) ==
  /\ pc[r] = "loop"
  /\ idx[r] <= Len(flights[r])
  /\ LET flight == flights[r][LoopIndex(idx[r])]
     IN \E reply \in DetailReplies :
          /\ calls' = [calls EXCEPT ![r] =
                         Append(@, [op |-> "get_flight_details",
                                    flight |-> flight, reply |-> reply])]
          /\ aircraft_data' =
               [aircraft_data EXCEPT ![Frame(r)] =
                  Append(@, FlightEntry(loc[r], user[r], flight, reply))]
  /\ idx' = [idx EXCEPT ![r] = @ + 1]
  /\ UNCHANGED <<pc, endpoint, args, nearby, loc, user, bounds, flights,
                 response, probe>>

\* line 121, then lines 145-163 of get_aircraft
RespondAll(r) ==
  /\ pc[r] = "loop"
  /\ idx[r] > Len(flights[r])
  /\ endpoint[r] = "/"
  /\ aircraft_data' = [aircraft_data EXCEPT ![Frame(r)] = SortByDistance(@)]
  /\ response' = [response EXCEPT ![r] = RenderAll(aircraft_data[Frame(r)])]
  /\ pc' = [pc EXCEPT ![r] = "done"]
  /\ UNCHANGED <<endpoint, args, nearby, loc, user, bounds, flights, idx,
                 calls, probe>>

\* line 121, then lines 178-199 of get_closest_aircraft
RespondClosest(r) ==
  /\ pc[r] = "loop"
  /\ idx[r] > Len(flights[r])
  /\ endpoint[r] = "/closest"
  /\ response' = [response EXCEPT ![r] = RenderClosest(aircraft_data[Frame(r)])]
  /\ pc' = [pc EXCEPT ![r] = "done"]
  /\ UNCHANGED <<endpoint, args, nearby, loc, user, bounds, flights, idx,
                 aircraft_data, calls, probe>>

(***************************************************************************)
(* The bearing functions called on their own                               *)
(***************************************************************************)
IdleProbe == [pc |-> "idle", kind |-> "none", from |-> <<0, 0>>, to |-> <<0, 0>>, raw |-> 0,
              bearing |-> 0]

\* calculate_heading_to_aircraft on a pair of (latitude, longitude) points
ProbeHeading ==
  /\ probe.pc = "heading"
  /\ probe' = [probe EXCEPT
                 !.pc = "done",
                 !.raw = RawBearing(probe.from[1], probe.from[2],
                                    probe.to[1], probe.to[2]),
                 !.bearing = calculate_heading_to_aircraft(
                               probe.from[1], probe.from[2],
                               probe.to[1], probe.to[2])]
  /\ UNCHANGED <<pc, endpoint, args, nearby, loc, user, bounds, flights, idx,
                 aircraft_data, response, calls>>

\* line 53 on a raw bearing math.degrees(math.atan2(y, x)) can give
ProbeNormalize ==
  /\ probe.pc = "normalize"
  /\ probe' = [probe EXCEPT !.pc = "done",
                            !.bearing = NormalizeBearing(probe.raw)]
  /\ UNCHANGED <<pc, endpoint, args, nearby, loc, user, bounds, flights, idx,
                 aircraft_data, response, calls>>

(***************************************************************************)
(* Specifications                                                          *)
(***************************************************************************)
Missing == PyNone
Text(s) == PyStr(s)

LongitudeTexts == {Missing, Text(<<"a", "b", "c">>), Text(<<"0">>),
                   Text(<<"9", "0">>)}
LatitudeTexts == {Missing, Text(<<"-">>), Text(<<"0">>),
                  Text(<<"-", "9", "0">>)}
AltitudeTexts == {Missing, Text(<<"1", "k">>), Text(<<"0">>),
                  Text(<<"3", "0", "0", "0", "0">>)}

Queries == [longitude : LongitudeTexts, latitude : LatitudeTexts,
            altitude : AltitudeTexts]

\* a listing of n flights, numbered in the order the gateway lists them
Listing(n) == [i \in 1..n |-> i]

InitFrames ==
  /\ loc = [r \in Requests |-> NoLoc]
  /\ user = [r \in Requests |-> <<0, 0, 0>>]
  /\ bounds = [r \in Requests |-> <<>>]
  /\ flights = [r \in Requests |-> <<>>]
  /\ idx = [r \in Requests |-> 0]
  /\ aircraft_data = [r \in Requests |-> <<>>]
  /\ response = [r \in Requests |-> NoResponse]
  /\ calls = [r \in Requests |-> <<>>]

\* one request is served
Init ==
  /\ pc = [r \in Requests |-> IF r = 1 THEN "validate" ELSE "idle"]
  /\ \E route \in Routes :
       endpoint = [r \in Requests |-> route]
  /\ \E q \in Queries :
       args = [r \in Requests |-> q]
  /\ \E n \in 0..MaxFlights :
       nearby = [r \in Requests |-> Listing(n)]
  /\ InitFrames
  /\ probe = IdleProbe

Serve(r) ==
  \/ Validate(r)
  \/ GetBounds(r)
  \/ GetFlights(r)
  \/ ProcessFlight(r)
  \/ RespondAll(r)
  \/ RespondClosest(r)

Next == \E r \in Requests : Serve(r)

Spec == Init /\ [][Next]_vars

\* two requests are served at once, their steps interleaved
ConcQueries ==
  { [longitude |-> Text(<<"0">>), latitude |-> Text(<<"0">>),
     altitude |-> Missing],
    [longitude |-> Text(<<"9", "0">>), latitude |-> Text(<<"0">>),
     altitude |-> Text(<<"3", "0", "0", "0", "0">>)] }

InitConc ==
  /\ pc = [r \in Requests |-> "validate"]
  /\ endpoint \in [Requests -> Routes]
  /\ args \in [Requests -> ConcQueries]
  /\ \E n \in [Requests -> 0..MaxConcFlights] :
       nearby = [r \in Requests |-> Listing(n[r])]
  /\ InitFrames
  /\ probe = IdleProbe

SpecConc == InitConc /\ [][Next]_vars

\* the bearing functions alone
Latitudes == {-90, 0, 90}
Longitudes == {-180, -90, 0, 90, 180}

InitBearing ==
  /\ pc = [r \in Requests |-> "idle"]
  /\ endpoint = [r \in Requests |-> "/"]
  /\ args = [r \in Requests |-> [longitude |-> Missing, latitude |-> Missing,
                                 altitude |-> Missing]]
  /\ nearby = [r \in Requests |-> <<>>]
  /\ InitFrames
  /\ \/ \E d \in -180..180 :
          probe = [IdleProbe EXCEPT !.pc = "normalize", !.kind = "normalize",
                                    !.raw = d]
     \/ \E a \in Latitudes \X Longitudes, b \in Latitudes \X Longitudes :
          probe = [IdleProbe EXCEPT !.pc = "heading", !.kind = "heading",
                                    !.from = a, !.to = b]

NextBearing == ProbeHeading \/ ProbeNormalize

SpecBearing == InitBearing /\ [][NextBearing]_vars

(***************************************************************************)
(* What the claims speak of                                                *)
(***************************************************************************)
Done(r) == pc[r] = "done"

\* the text is a decimal number: an optional sign, then digits only
NumericText(t) ==
  /\ t.tag = "str"
  /\ LET digits == IF t.s # <<>> /\ Head(t.s) \in {"-", "+"}
                   THEN Tail(t.s) ELSE t.s
     IN /\ digits # <<>>
        /\ \A i \in 1..Len(digits) : digits[i] \in Digits

\* the query is one the service must take
ValidQuery(q) ==
  /\ NumericText(q.longitude)
  /\ NumericText(q.latitude)
  /\ q.altitude.tag = "none" \/ NumericText(q.altitude)

ListAnswered(r) == Len(calls[r]) >= 2 /\ ~calls[r][2].reply.raised
Listed(r) == calls[r][2].reply.value

\* the answer of the gateway to the detail fetch of the i-th listed flight
DetailReply(r, i) == calls[r][2 + i].reply

\* the tuple the i-th listed flight must give
EntryOf(r, i) == FlightEntry(loc[r], user[r], Listed(r)[i], DetailReply(r, i))

Resolved(r, i) == ~DetailReply(r, i).raised

Orders(n) ==
  { p \in [1..n -> 1..n] : \A i, j \in 1..n : p[i] = p[j] => i = j }

RECURSIVE Split(_, _, _)
Split(rest, cur, acc) ==
  IF rest = <<>> THEN Append(acc, cur)
  ELSE IF Head(rest) = "\n" THEN Split(Tail(rest), <<>>, Append(acc, cur))
  ELSE Split(Tail(rest), Append(cur, Head(rest)), acc)

\* the lines of the body of GET /, the trailing instruction text taken off
RenderedLines(body) ==
  IF Len(body) <= 1 THEN <<>>
  ELSE Split(SubSeq(body, 1, Len(body) - 1), <<>>, <<>>)

\* text m occurs in body from piece k on
Contains(body, m, k) ==
  \E j \in k..Len(body) : SubSeq(body, j, j + Len(m) - 1) = m

Sentence(d) ==
  <<d.airline, " ", d.aircraft_type, " departing from ", d.source, " to ",
    d.destination, ".">>

C2_ReorderWitness ==
  /\ Done(1) /\ endpoint[1] = "/" /\ ListAnswered(1)
  /\ Len(Listed(1)) = 3
  /\ Resolved(1, 2) /\ Resolved(1, 3)
  /\ FloatLt(EntryOf(1, 3)[1], EntryOf(1, 2)[1])

C4_NoneResolvedIsNotAnError ==
  \A r \in Requests :
    (Done(r) /\ endpoint[r] = "/closest" /\ ListAnswered(r)
       /\ \A i \in 1..Len(Listed(r)) : ~Resolved(r, i)) =>
      /\ response[r].status = 200
      /\ response[r].body =
           <<"No aircraft found within 10km of your location.">>

\* aircraft are listed and every detail fetch raised
C4_Witness ==
  /\ Done(1) /\ endpoint[1] = "/closest" /\ ListAnswered(1)
  /\ Len(Listed(1)) = 2
  /\ ~Resolved(1, 1) /\ ~Resolved(1, 2)

(***************************************************************************)
(* C5: on both routes a query whose longitude or latitude is missing or    *)
(* not a number, or whose altitude is given and not a number, is answered  *)
(* 400 with exactly "Error: Invalid longitude, latitude, or altitude       *)
(* values"; a query with numeric longitude and latitude and no altitude    *)
(* passes validation with altitude 0.                                      *)
(***************************************************************************)
C5_InvalidQueryIs400 ==
  \A r \in Requests :
    pc[r] \notin {"idle", "validate"} =>
      /\ ~ValidQuery(args[r]) =>
           /\ Done(r)
           /\ response[r].status = 400
           /\ response[r].body =
                <<"Error: ", "Invalid longitude, latitude, or altitude values">>
      /\ (ValidQuery(args[r]) /\ args[r].altitude.tag = "none") =>
           /\ response[r].status # 400
           /\ loc[r].altitude = 0
           /\ pc[r] = "bounds" => response[r] = NoResponse

\* longitude=abc on GET /closest, the other parameters numeric
C5_Witness ==
  /\ Done(1) /\ endpoint[1] = "/closest"
  /\ args[1].longitude = Text(<<"a", "b", "c">>)
  /\ NumericText(args[1].latitude) /\ NumericText(args[1].altitude)
  /\ response[1].status = 400

\* no altitude given, and the request went on to the gateway
C5_DefaultWitness ==
  /\ pc[1] = "bounds" /\ args[1].altitude.tag = "none"

\* the bounds query or the list query of the request raised
UpstreamFailure(r) ==
  \/ Len(calls[r]) = 1 /\ calls[r][1].reply.raised
  \/ Len(calls[r]) = 2 /\ calls[r][2].reply.raised

(***************************************************************************)
(* C6: on both routes, when the query is valid and the bounds query or the *)
(* list query raises with message m, the answer is 500, its body "Error: " *)
(* followed by text containing m, and nothing else: no aircraft line.      *)
(***************************************************************************)
C6_UpstreamFailureIs500 ==
  \A r \in Requests :
    UpstreamFailure(r) =>
      LET m == calls[r][Len(calls[r])].reply.msg
          body == response[r].body
      IN /\ Done(r)
         /\ response[r].status = 500
         /\ Head(body) = "Error: "
         /\ Contains(body, m, 2)
         /\ \A k \in 1..Len(body) :
              body[k] \in {"Error: ", "Error fetching flight data: "}
              \/ \E j \in 1..Len(m) : body[k] = m[j]

\* the list query raised on GET /
C6_Witness ==
  /\ Done(1) /\ endpoint[1] = "/"
  /\ Len(calls[1]) = 2 /\ calls[1][2].reply.raised

\* the normalisation written ((deg % 360) + 360) % 360
SpecNormalize(d) == ((d % 360) + 360) % 360

(***************************************************************************)
(* C7: the bearing calculate_heading_to_aircraft returns is in [0, 360):   *)
(* for every raw bearing d in [-180, 180], (d + 360) % 360 is in [0, 360)  *)
(* and equals ((d % 360) + 360) % 360; from a point to itself it is 0.     *)
(***************************************************************************)
C7_BearingNormalized ==
  probe.pc = "done" =>
    /\ probe.raw \in -180..180
    /\ probe.bearing \in 0..359
    /\ probe.bearing = SpecNormalize(probe.raw)
    /\ (probe.kind = "heading" /\ probe.from = probe.to) => probe.bearing = 0

\* a negative raw bearing has been normalised
C7_Witness ==
  /\ probe.pc = "done"
  /\ probe.raw < 0
  /\ probe.bearing = probe.raw + 360

\* the bearing of a point to itself has been computed, off the origin
C7_SelfWitness ==
  /\ probe.pc = "done" /\ probe.kind = "heading"
  /\ probe.from = probe.to /\ probe.from = <<90, -90>>

\* the answer of a route run from start to end with the gateway answers `log`
AnswerAlone(route, query, log) ==
  LET v == validate_location_params(query)
  IN IF v.raised THEN ErrorResponse(v)
     ELSE IF log[1].reply.raised
     THEN ErrorResponse(WrapFetchError(log[1].reply))
     ELSE IF log[2].reply.raised
     THEN ErrorResponse(WrapFetchError(log[2].reply))
     ELSE LET l == v.value
              u == pointToCartesian(l.longitude, l.latitude, l.altitude)
              listed == log[2].reply.value
              data == [i \in 1..Len(listed) |->
                         FlightEntry(l, u, listed[i], log[2 + i].reply)]
          IN IF route = "/" THEN RenderAll(data) ELSE RenderClosest(data)

(***************************************************************************)
(* C8: requests served at once do not disturb one another: whatever the    *)
(* interleaving, the answer to each request is the answer the request      *)
(* gets when it runs alone with the same gateway answers.                  *)
(***************************************************************************)
C8_RequestsIndependent ==
  \A r \in Requests :
    Done(r) =>
      /\ response[r] = AnswerAlone(endpoint[r], args[r], calls[r])
      /\ ListAnswered(r) => Len(calls[r]) = 2 + Len(Listed(r))

\* request 1 has been answered from its aircraft while request 2 stands
\* between its list query and the detail fetch of its aircraft
C8_Witness ==
  /\ Done(1) /\ response[1].status = 200 /\ Len(calls[1]) = 3
  /\ Resolved(1, 1)
  /\ pc[2] = "loop" /\ idx[2] = 1 /\ Len(flights[2]) = 1

(***************************************************************************)
(* C9: the gateway calls of a request come in a fixed order, none twice:   *)
(* none before validation succeeds, then one bounds query, then one list   *)
(* query, then one detail fetch per listed aircraft in list order; nothing *)
(* follows a failed bounds or list query; a request answered 200 made      *)
(* exactly one detail fetch per listed aircraft.                           *)
(***************************************************************************)
C9_GatewayCallOrder ==
  \A r \in Requests :
    LET log == calls[r]
    IN /\ pc[r] \in {"idle", "validate", "bounds"} => log = <<>>
       /\ ~ValidQuery(args[r]) => log = <<>>
       /\ Len(log) >= 1 => log[1].op = "get_bounds_by_point"
       /\ Len(log) >= 2 =>
            /\ log[2].op = "get_flights"
            /\ ~log[1].reply.raised
       /\ Len(log) >= 3 =>
            /\ ~log[2].reply.raised
            /\ Len(log) <= 2 + Len(Listed(r))
            /\ \A i \in 1..(Len(log) - 2) :
                 /\ log[2 + i].op = "get_flight_details"
                 /\ log[2 + i].flight = Listed(r)[i]
       /\ (Done(r) /\ response[r].status = 200) =>
            /\ ListAnswered(r)
            /\ Len(log) = 2 + Len(Listed(r))

\* three aircraft fetched, the second fetch failed, and the request is answered
C9_Witness ==
  /\ Done(1) /\ response[1].status = 200
  /\ Len(calls[1]) = 5
  /\ calls[1][4].reply.raised

(***************************************************************************)
(* C10: every request ends with status 200, 400 or 500, and 400 only when  *)
(* validation failed: once validate_location_params has succeeded, a       *)
(* failure while fetching, a ValueError included, is answered 500.         *)
(***************************************************************************)
C10_Only400OnValidation ==
  \A r \in Requests :
    Done(r) =>
      /\ response[r].status \in {200, 400, 500}
      /\ response[r].status = 400 => (~ValidQuery(args[r]) /\ calls[r] = <<>>)
      /\ (ValidQuery(args[r]) /\ ~ListAnswered(r)) => response[r].status = 500

\* the gateway raised a ValueError (a JSONDecodeError) and the answer is 500
C10_Witness ==
  /\ Done(1)
  /\ Len(calls[1]) = 1 /\ calls[1][1].reply.raised
  /\ IsValueError(calls[1][1].reply.type)
  /\ response[1].status = 500

====
